---- MODULE Spec2Model ----
(***************************************************************************)
(* Model of package iprange (pkg/iprange/range.go): the Range value built  *)
(* by New from two net.IP byte slices, and its Family, Contains, Size and  *)
(* String methods.                                                         *)
(*                                                                         *)
(* A net.IP is a byte slice.  The caller's two slices live in `heap`; a    *)
(* Range stores the slice headers it was given, i.e. references into heap. *)
(* Bytes are scaled from 0..255 to 0..ByteMax, so that an address is a     *)
(* base-(ByteMax+1) numeral of IPv4len or IPv6len digits; 0xff is ByteMax. *)
(***************************************************************************)
EXTENDS Integers, Sequences, FiniteSets, TLC

\* Largest value of a byte (0xff in the program).
ByteMax == 1
\* Largest number of in-place writes the caller makes to its buffers.
MaxWrites == 1

Base == ByteMax + 1
Byte == 0 .. ByteMax

\* net.IPv4len and net.IPv6len.
IPv4len == 4
IPv6len == 16

\* type Family uint8; V4Family = iota, V6Family.
V4Family == 0
V6Family == 1

---------------------------------------------------------------------------
\* Standard library operations the package calls.

\* The zero-length (nil) slice.
NilIP == << >>

\* bytes.Compare: lexicographic order, a proper prefix is smaller.
RECURSIVE Compare(_, _)
Compare(a, b) ==
  IF a = << >> /\ b = << >> THEN 0
  ELSE IF a = << >> THEN -1
  ELSE IF b = << >> THEN 1
  ELSE IF Head(a) < Head(b) THEN -1
  ELSE IF Head(a) > Head(b) THEN 1
  ELSE Compare(Tail(a), Tail(b))

\* net.isZeros
isZeros(p) == \A i \in 1 .. Len(p) : p[i] = 0

\* net.IP.To4: the 4-byte form of an IPv4 address, from its 4-byte form or
\* its 16-byte IPv4-mapped form (ten 0x00, two 0xff, four bytes); nil otherwise.
To4(ip) ==
  IF Len(ip) = IPv4len THEN ip
  ELSE IF /\ Len(ip) = IPv6len
          /\ isZeros(SubSeq(ip, 1, 10))
          /\ ip[11] = ByteMax
          /\ ip[12] = ByteMax
       THEN SubSeq(ip, 13, 16)
  ELSE NilIP

\* net.IP.To16: the 16-byte form of an address; nil for any other length.
To16(ip) ==
  IF Len(ip) = IPv4len
    THEN [i \in 1 .. 10 |-> 0] \o << ByteMax, ByteMax >> \o ip
  ELSE IF Len(ip) = IPv6len THEN ip
  ELSE NilIP

\* x << bits on a byte-aligned shift: one byte is one digit.
Shl(x, bits) == x * Base ^ (bits \div 8)

\* Variant: the bytes read least significant first.
SetBytesLE(buf) ==
  LET RECURSIVE le(_)
      le(s) == IF s = << >> THEN 0 ELSE Head(s) + Base * le(Tail(s))
  IN le(buf)

\* big.Int.SetBytes: the big-endian unsigned value of a byte slice.
SetBytes(buf) ==
  LET RECURSIVE be(_, _)
      be(acc, s) == IF s = << >> THEN acc ELSE be(acc * Base + Head(s), Tail(s))
  IN be(0, buf)

---------------------------------------------------------------------------
\* Validation of the two boundaries.

isV4IP(ip) == To4(ip) # NilIP

isV6IP(ip) == ~isV4IP(ip) /\ To16(ip) # NilIP

isV4RangeValid(start, end) ==
  /\ isV4IP(start)
  /\ isV4IP(end)
  /\ Compare(To4(start), To4(end)) <= 0

isV6RangeValid(start, end) ==
  /\ isV6IP(start)
  /\ isV6IP(end)
  /\ Compare(To16(start), To16(end)) <= 0

---------------------------------------------------------------------------
\* The Range values.  Start and End are references to the caller's buffers.

Nil == [kind |-> "nil", Start |-> "none", End |-> "none"]

v4Range(s, e) == [kind |-> "v4Range", Start |-> s, End |-> e]

v6Range(s, e) == [kind |-> "v6Range", Start |-> s, End |-> e]

\* Variant: the validity tests called with end and start exchanged.
NewSwapped(h, s, e) ==
  IF isV4RangeValid(h[e], h[s]) THEN v4Range(s, e)
  ELSE IF isV6RangeValid(h[e], h[s]) THEN v6Range(s, e)
  ELSE Nil

\* Variant: whatever is no valid IPv4 range is taken for an IPv6 range.
NewNoV6Check(h, s, e) ==
  IF isV4RangeValid(h[s], h[e]) THEN v4Range(s, e)
  ELSE v6Range(s, e)

\* New, on the slices s and e of heap h.
New(h, s, e) ==
  IF isV4RangeValid(h[s], h[e]) THEN v4Range(s, e)
  ELSE IF isV6RangeValid(h[s], h[e]) THEN v6Range(s, e)
  ELSE Nil

\* Family of either variant.
Family(rg) == IF rg.kind = "v4Range" THEN V4Family ELSE V6Family

\* v4Range.Contains and v6Range.Contains: the same comparison of raw bytes.
Contains(h, rg, ip) ==
  Compare(ip, h[rg.Start]) >= 0 /\ Compare(ip, h[rg.End]) <= 0

\* Variant: the first four bytes of the slice as given, without To4.
v4ToIntNoTo4(ip) ==
  Shl(ip[1], 24) + Shl(ip[2], 16) + Shl(ip[3], 8) + ip[4]

\* v4ToInt; the four shifted bytes do not overlap, so | is +.  Indexing the
\* nil slice that To4 gives for a non-IPv4 slice panics: reported as -1.
v4ToInt(ip) ==
  LET p == To4(ip)
  IN IF p = NilIP THEN -1
     ELSE Shl(p[1], 24) + Shl(p[2], 16) + Shl(p[3], 8) + p[4]

\* Variant: end - start, the last address not counted.
v4SizeNoPlusOne(h, rg) ==
  [panic |-> FALSE, int |-> v4ToInt(h[rg.End]) - v4ToInt(h[rg.Start])]

\* Variant: start - end + 1.
v4SizeSwapped(h, rg) ==
  [panic |-> FALSE, int |-> v4ToInt(h[rg.Start]) - v4ToInt(h[rg.End]) + 1]

\* v4Range.Size.  The int64 operands stay below Base^4, so nothing wraps.
v4Size(h, rg) ==
  LET e == v4ToInt(h[rg.End])
      s == v4ToInt(h[rg.Start])
  IN IF e < 0 \/ s < 0 THEN [panic |-> TRUE, int |-> 0]
     ELSE [panic |-> FALSE, int |-> e - s + 1]

\* Variant: without the final Add of 1.
v6SizeNoPlusOne(h, rg) ==
  [panic |-> FALSE, int |-> (0 + SetBytes(h[rg.End])) - SetBytes(h[rg.Start])]

\* v6Range.Size, in arbitrary precision.
v6Size(h, rg) ==
  [panic |-> FALSE,
   int |-> ((0 + SetBytes(h[rg.End])) - SetBytes(h[rg.Start])) + 1]

Size(h, rg) == IF rg.kind = "v4Range" THEN v4Size(h, rg) ELSE v6Size(h, rg)

\* net.IP.String of a 4- or 16-byte slice: dotted decimal of the 4-byte form
\* of an IPv4 address (either encoding), colon-hex of the 16 bytes otherwise.
IPString(ip) ==
  IF To4(ip) # NilIP THEN [notation |-> "dotted", bytes |-> To4(ip)]
  ELSE [notation |-> "colon", bytes |-> ip]

\* v4Range.String and v6Range.String: "%s-%s" of the two boundaries.
String(h, rg) == << IPString(h[rg.Start]), IPString(h[rg.End]) >>

---------------------------------------------------------------------------
\* Inputs.

Zeros(n) == [i \in 1 .. n |-> 0]
Ones(n) == [i \in 1 .. n |-> ByteMax]
MappedPrefix == Zeros(10) \o << ByteMax, ByteMax >>

\* IPv4 addresses in 4-byte form: any first and last byte, and the top address.
V4Inputs ==
  { << a, 0, 0, d >> : a \in Byte, d \in Byte } \cup { Ones(IPv4len) }

\* The same addresses in 16-byte IPv4-mapped form.
MappedInputs == { MappedPrefix \o v : v \in V4Inputs }

\* True IPv6 addresses: 16 bytes that do not start with the mapped prefix.
\* Any first and last byte, the top address, and one address that differs
\* from the mapped prefix in its twelfth byte only.
V6Inputs ==
  { << a >> \o Zeros(14) \o << d >> : a \in Byte, d \in Byte }
    \cup { Ones(IPv6len), Zeros(10) \o << ByteMax, 0 >> \o Zeros(4) }

\* Slices that are no address: nil and a 3-byte slice.
BadInputs == { NilIP, << 0, 0, ByteMax >> }

Inputs == V4Inputs \cup MappedInputs \cup V6Inputs \cup BadInputs

\* Candidates of Contains.
Candidates == V4Inputs \cup MappedInputs \cup V6Inputs

Bufs == { "start", "end" }

---------------------------------------------------------------------------
\* State.

VARIABLES
  heap,    \* the caller's two byte buffers
  pc,      \* "start" before New is called, "made" after
  args,    \* the contents of the buffers when New was called
  r,       \* what New returned
  ret,     \* the last method call on r and what it returned
  writes   \* the number of writes the caller made to its buffers after New

vars == << heap, pc, args, r, ret, writes >>

NoRet ==
  [op |-> "none", ip |-> NilIP, fam |-> V4Family, bool |-> FALSE,
   panic |-> FALSE, int |-> 0, str |-> << >>]

Init ==
  /\ heap \in [Bufs -> Inputs]
  /\ pc = "start"
  /\ args = [b \in Bufs |-> NilIP]
  /\ r = Nil
  /\ ret = NoRet
  /\ writes = 0

\* r := New(start, end)
CallNew ==
  /\ pc = "start"
  /\ pc' = "made"
  /\ args' = heap
  /\ r' = New(heap, "start", "end")
  /\ UNCHANGED << heap, ret, writes >>

\* r.Family()
CallFamily ==
  /\ pc = "made"
  /\ r # Nil
  /\ ret' = [NoRet EXCEPT !.op = "Family", !.fam = Family(r)]
  /\ UNCHANGED << heap, pc, args, r, writes >>

\* r.Contains(ip)
CallContains ==
  /\ pc = "made"
  /\ r # Nil
  /\ \E ip \in Candidates :
       ret' = [NoRet EXCEPT !.op = "Contains", !.ip = ip,
                            !.bool = Contains(heap, r, ip)]
  /\ UNCHANGED << heap, pc, args, r, writes >>

\* r.Size()
CallSize ==
  /\ pc = "made"
  /\ r # Nil
  /\ ret' = [NoRet EXCEPT !.op = "Size", !.panic = Size(heap, r).panic,
                          !.int = Size(heap, r).int]
  /\ UNCHANGED << heap, pc, args, r, writes >>

\* r.String()
CallString ==
  /\ pc = "made"
  /\ r # Nil
  /\ ret' = [NoRet EXCEPT !.op = "String", !.str = String(heap, r)]
  /\ UNCHANGED << heap, pc, args, r, writes >>

\* The caller stores a byte into one of the buffers it passed to New.
Write ==
  /\ pc = "made"
  /\ writes < MaxWrites
  /\ \E b \in Bufs :
       \E i \in 1 .. Len(heap[b]) :
         \E v \in Byte :
           /\ v # heap[b][i]
           /\ heap' = [heap EXCEPT ![b][i] = v]
  /\ writes' = writes + 1
  /\ UNCHANGED << pc, args, r, ret >>

\* The package used as a library: construction, then queries.
Next == CallNew \/ CallFamily \/ CallContains \/ CallSize \/ CallString

Spec == Init /\ [][Next]_vars

\* The same, with a caller that writes to its buffers after construction.
NextAlias == Next \/ Write

SpecAlias == Init /\ [][NextAlias]_vars

---------------------------------------------------------------------------
\* Vocabulary of the properties: address families and numeric values, stated
\* on the bytes and independently of the operators above.

IsMapped(a) == Len(a) = IPv6len /\ SubSeq(a, 1, 12) = MappedPrefix

\* An IPv4 address, in 4-byte or in 16-byte IPv4-mapped form.
IsIPv4Addr(a) == Len(a) = IPv4len \/ IsMapped(a)

\* A true IPv6 address.
IsIPv6Addr(a) == Len(a) = IPv6len /\ ~IsMapped(a)

\* The last four bytes: the 4-byte form of an IPv4 address.
Low4(a) == SubSeq(a, Len(a) - 3, Len(a))

\* The other encoding of an IPv4 address.
OtherForm(a) == IF Len(a) = IPv4len THEN MappedPrefix \o a ELSE Low4(a)

\* The big-endian unsigned value of all the bytes of a.
RECURSIVE DigitSum(_, _)
DigitSum(a, i) ==
  IF i > Len(a) THEN 0 ELSE a[i] * Base ^ (Len(a) - i) + DigitSum(a, i + 1)

AddrInt(a) == DigitSum(a, 1)

\* The 32-bit value of an IPv4 address in either encoding.
V4Int(a) == AddrInt(Low4(a))

ValidV4Pair ==
  /\ IsIPv4Addr(args.start)
  /\ IsIPv4Addr(args.end)
  /\ V4Int(args.start) <= V4Int(args.end)

ValidV6Pair ==
  /\ IsIPv6Addr(args.start)
  /\ IsIPv6Addr(args.end)
  /\ AddrInt(args.start) <= AddrInt(args.end)

ReversedPair ==
  \/ /\ IsIPv4Addr(args.start)
     /\ IsIPv4Addr(args.end)
     /\ V4Int(args.start) > V4Int(args.end)
  \/ /\ IsIPv6Addr(args.start)
     /\ IsIPv6Addr(args.end)
     /\ AddrInt(args.start) > AddrInt(args.end)

MixedPair ==
  \/ IsIPv4Addr(args.start) /\ IsIPv6Addr(args.end)
  \/ IsIPv6Addr(args.start) /\ IsIPv4Addr(args.end)

\* C1: for IPv4 start <= end (either encoding), New returns a v4Range, its
\* Family is V4Family and its Size is end_int - start_int + 1, also for the
\* whole address space, whose size Base^4 does not wrap.
C1_V4FamilyAndSize ==
  (pc = "made" /\ ValidV4Pair) =>
    /\ r.kind = "v4Range"
    /\ (ret.op = "Family" => ret.fam = V4Family)
    /\ (ret.op = "Size" =>
          /\ ~ret.panic
          /\ ret.int = V4Int(args.end) - V4Int(args.start) + 1)

\* New(0.0.0.0, 255.255.255.255).Size() has returned the whole space's size.
C1_Witness ==
  /\ pc = "made"
  /\ args.start = Zeros(IPv4len)
  /\ args.end = Ones(IPv4len)
  /\ ret.op = "Size"
  /\ ret.int = Base ^ IPv4len

\* C2: for true IPv6 start <= end, New returns a v6Range, its Family is
\* V6Family and its Size is end_int - start_int + 1 on the 16-byte values.
C2_V6FamilyAndSize ==
  (pc = "made" /\ ValidV6Pair) =>
    /\ r.kind = "v6Range"
    /\ (ret.op = "Family" => ret.fam = V6Family)
    /\ (ret.op = "Size" =>
          /\ ~ret.panic
          /\ ret.int = AddrInt(args.end) - AddrInt(args.start) + 1)

\* Size() of an IPv6 range of several addresses whose boundaries differ in
\* their most significant byte.
C2_Witness ==
  /\ pc = "made"
  /\ ValidV6Pair
  /\ args.start[1] < args.end[1]
  /\ args.start[IPv6len] > args.end[IPv6len]
  /\ ret.op = "Size"
  /\ ret.int > 1

\* C3: for two addresses of one family with start > end, New returns nil.
C3_ReversedIsNil ==
  (pc = "made" /\ ReversedPair) => r = Nil

\* New was called with start > end, for IPv4 boundaries in differing encodings.
C3_Witness ==
  /\ pc = "made"
  /\ ReversedPair
  /\ IsMapped(args.end)
  /\ Len(args.start) = IPv4len
  /\ r = Nil

\* C4: for one IPv4 and one true IPv6 address, in either order and whatever
\* their byte-wise order, New returns nil.
C4_MixedIsNil ==
  (pc = "made" /\ MixedPair) => r = Nil

\* New was called with a 4-byte IPv4 start that is byte-wise below its IPv6 end.
C4_Witness ==
  /\ pc = "made"
  /\ MixedPair
  /\ Len(args.start) = IPv4len
  /\ Compare(args.start, args.end) < 0
  /\ r = Nil

\* C5: Contains(start) and Contains(end) are true for every Range, and for a
\* candidate of the Range's family and byte width Contains(ip) is true exactly
\* when start <= ip <= end.
C5_ContainsExact ==
  (pc = "made" /\ r # Nil /\ ret.op = "Contains") =>
    /\ (ret.ip = args.start => ret.bool)
    /\ (ret.ip = args.end => ret.bool)
    /\ ( ( /\ Len(ret.ip) = Len(args.start)
           /\ Len(ret.ip) = Len(args.end)
           /\ IsIPv4Addr(ret.ip) <=> r.kind = "v4Range" ) =>
         ( ret.bool <=>
             /\ AddrInt(args.start) <= AddrInt(ret.ip)
             /\ AddrInt(ret.ip) <= AddrInt(args.end) ) )

\* C6: Size() of every Range New returns is at least 1, whatever the
\* encodings of its boundaries.
C6_SizeAtLeastOne ==
  (pc = "made" /\ r # Nil /\ ret.op = "Size") => (~ret.panic /\ ret.int >= 1)

\* Size() of an IPv4 range whose boundaries are in differing encodings.
C6_Witness ==
  /\ pc = "made"
  /\ r.kind = "v4Range"
  /\ Len(args.start) # Len(args.end)
  /\ V4Int(args.start) < V4Int(args.end)
  /\ ret.op = "Size"

\* C7: for IPv4 boundaries in any encoding, New's result, its Family and its
\* Size are those for the 4-byte forms of the same addresses: a v4Range when
\* start <= end on the 4-byte forms, nil otherwise.
C7_EncodingIndependent ==
  (pc = "made" /\ IsIPv4Addr(args.start) /\ IsIPv4Addr(args.end)) =>
    LET h4 == [b \in Bufs |-> Low4(args[b])]
        r4 == New(h4, "start", "end")
    IN /\ r.kind = r4.kind
       /\ r.kind = IF Compare(h4.start, h4.end) <= 0 THEN "v4Range" ELSE "nil"
       /\ (ret.op = "Family" => ret.fam = Family(r4))
       /\ (ret.op = "Size" =>
             /\ ret.panic = Size(h4, r4).panic
             /\ ret.int = Size(h4, r4).int)

\* Size() of a range built from a 16-byte mapped start and a 4-byte end.
C7_Witness ==
  /\ pc = "made"
  /\ IsMapped(args.start)
  /\ Len(args.end) = IPv4len
  /\ ret.op = "Size"
  /\ ret.int > 1

\* C8: whatever the caller writes to the buffers it passed to New, every
\* method of the Range returns what it returns for the boundaries as they
\* were when New was called.
C8_ResultsUnchanged ==
  (pc = "made" /\ r # Nil) =>
    /\ (ret.op = "Family" => ret.fam = Family(r))
    /\ (ret.op = "Contains" => ret.bool = Contains(args, r, ret.ip))
    /\ (ret.op = "Size" =>
          /\ ret.panic = Size(args, r).panic
          /\ ret.int = Size(args, r).int)
    /\ (ret.op = "String" => ret.str = String(args, r))

\* C9: an IPv4 Range gives the same answer for the 4-byte and the 16-byte
\* mapped form of an IPv4 candidate, and the answer is true when the
\* candidate lies numerically within [start, end].
C9_ContainsNormalizes ==
  (pc = "made" /\ r.kind = "v4Range" /\ ret.op = "Contains"
     /\ IsIPv4Addr(ret.ip)) =>
    /\ ret.bool = Contains(heap, r, OtherForm(ret.ip))
    /\ ( ( /\ V4Int(args.start) <= V4Int(ret.ip)
           /\ V4Int(ret.ip) <= V4Int(args.end) ) => ret.bool )

FullV6Range ==
  /\ pc = "made"
  /\ args.start = Zeros(IPv6len)
  /\ args.end = Ones(IPv6len)

\* C10 as stated: the range of the whole IPv6 space is valid and its Size
\* is Base^16 - 1 (2^128 - 1).
C10_FullRangeSizeMinusOne ==
  FullV6Range =>
    /\ r.kind = "v6Range"
    /\ (ret.op = "Size" => ret.int = Base ^ IPv6len - 1)

\* C10 amended: the range of the whole IPv6 space is valid and its Size is
\* Base^16 (2^128), the number of addresses of the space.
C10_FullRangeSize ==
  FullV6Range =>
    /\ r.kind = "v6Range"
    /\ (ret.op = "Size" => ~ret.panic /\ ret.int = Base ^ IPv6len)

\* Size() of the range of the whole IPv6 space has returned.
C10_Witness ==
  /\ FullV6Range
  /\ r.kind = "v6Range"
  /\ ret.op = "Size"

====
